---- MODULE Spec2Model ----
(***************************************************************************)
(* SpendWell: anomaly scoring, forecasting and budget projection over the  *)
(* expenses store (anomaly_detector.py, predictive_analyzer.py,            *)
(* database.py, config.py).                                                *)
(*                                                                         *)
(* Money is counted in hundreds of rupees (20 is Rs 2000); quotients are   *)
(* kept as exact fractions [n, d].  A timestamp is a day ordinal (1 is     *)
(* 1 January of a non-leap year, 366 is 1 January of the leap year after   *)
(* it) and an hour.  A sequence built as a function is written f \o <<>>   *)
(* where it is read many times, which is the same sequence.                *)
(* scikit-learn's IsolationForest/StandardScaler and Prophet are libraries *)
(* outside the repository: they are modelled by their documented contract  *)
(* (shape checks, value ranges, refit-from-scratch), not by their numerics.*)
(***************************************************************************)
EXTENDS Integers, Sequences, FiniteSets, TLC

VARIABLES
    expenses,          \* the expenses table, row i has id i (rows are never deleted)
    user_preferences,  \* the user_preferences table, by user id
    forecasts,         \* the forecasts table, append-only
    scaler,            \* AnomalyDetector.scaler of the shared instance
    model,             \* AnomalyDetector.model of the shared instance
    now,               \* the clock: datetime('now') and datetime.now()
    adds,              \* expenses recorded so far in this run
    ticks,             \* days gone by so far in this run
    ret                \* the outcome of the call that has just ended

vars == <<expenses, user_preferences, forecasts, scaler, model, now, adds, ticks, ret>>

-----------------------------------------------------------------------------
(* Bounds of the model *)

MaxTx == 11
MaxAdds == 1
MaxTicks == 1
MaxForecastRuns == 1

(* Program constants (config.py) *)

\* the forecasting threshold taken one too low
MIN_DATA_POINTS_low == 30 - 1

ANOMALY_CONTAMINATION_PCT == 10
FORECAST_DAYS == 30
MIN_DATA_POINTS == 30

(* Thresholds and windows written as literals in the code *)

\* the threshold taken one too low
MinAnomalyRows_low == 10 - 1

MinAnomalyRows == 10
LookbackDays == 90
BudgetWindowDays == 30
MinCategoryRows == 10

Users == {1}
Categories == <<"food", "rent">>
PaymentMethods == <<"UPI", "cash">>
Amounts == {20, 90}
Incomes == {0, 600}

-----------------------------------------------------------------------------
(* Calendar: datetime arithmetic used by the code *)

IsLeap(y) == y = 1

YearLen(y) == IF IsLeap(y) THEN 366 ELSE 365

MonthLen(y, m) ==
    IF m = 2 THEN (IF IsLeap(y) THEN 29 ELSE 28)
    ELSE IF m \in {4, 6, 9, 11} THEN 30 ELSE 31

RECURSIVE DaysBeforeMonth(_, _)
DaysBeforeMonth(y, m) ==
    IF m = 1 THEN 0 ELSE DaysBeforeMonth(y, m - 1) + MonthLen(y, m - 1)

\* ordinal of the date (y, m, d)
ToOrdinal(y, m, d) == (IF y = 0 THEN 0 ELSE YearLen(0)) + DaysBeforeMonth(y, m) + d

\* the date (year, month, day) of an ordinal in 1 .. 731
ToDate(o) ==
    LET y == IF o <= YearLen(0) THEN 0 ELSE 1
        r == IF y = 0 THEN o ELSE o - YearLen(0)
        m == CHOOSE k \in 1..12 :
                 DaysBeforeMonth(y, k) < r /\ r <= DaysBeforeMonth(y, k) + MonthLen(y, k)
    IN  [year |-> y, month |-> m, day |-> r - DaysBeforeMonth(y, m)]

\* pandas dt.dayofweek (Monday = 0); ordinal 1 is taken to be a Monday
DayOfWeek(o) == (o - 1) % 7

\* every month taken to have 30 days
LastDayOfMonth_thirty(o) == ToOrdinal(ToDate(o).year, ToDate(o).month, 30)

\* (today.replace(day=28) + timedelta(days=4)).replace(day=1) - timedelta(days=1)
LastDayOfMonth(o) ==
    LET t   == ToDate(o)
        d28 == ToOrdinal(t.year, t.month, 28)
        nxt == ToDate(d28 + 4)
        fst == ToOrdinal(nxt.year, nxt.month, 1)
    IN  fst - 1

-----------------------------------------------------------------------------
(* The expenses table (database.py) *)

\* a row of the expenses table; description is carried nowhere in the core
Row(id, u, amt, cat, pay, day, hour) ==
    [id |-> id, user_id |-> u, amount |-> amt, category |-> cat,
     payment_method |-> pay, day |-> day, hour |-> hour,
     is_anomaly |-> FALSE, anomaly_score |-> 0]

\* timestamp >= datetime('now', '-' || days || ' days')
InWindow(r, t, days) ==
    \/ r.day > t.day - days
    \/ r.day = t.day - days /\ r.hour >= t.hour

\* r sorts before s under ORDER BY timestamp DESC (ties in rowid order)
Before(r, s) ==
    \/ r.day > s.day
    \/ r.day = s.day /\ r.hour > s.hour
    \/ r.day = s.day /\ r.hour = s.hour /\ r.id < s.id

\* the rows in ORDER BY order: a row's place is one more than the number of
\* rows that sort before it
OrderDesc(rows) ==
    LET n    == Len(rows)
        rank == [i \in 1..n |->
                    1 + Cardinality({j \in 1..n : Before(rows[j], rows[i])})] \o <<>>
    IN  [k \in 1..n |-> rows[CHOOSE i \in 1..n : rank[i] = k]] \o <<>>

\* ExpenseDatabase.get_user_expenses: the data frame, newest first
get_user_expenses(tbl, t, user_id, days) ==
    OrderDesc(SelectSeq(tbl, LAMBDA r : r.user_id = user_id /\ InWindow(r, t, days)))

\* an UPDATE that sets is_anomaly alone
update_anomaly_status_flag_only(tbl, expense_id, is_anomaly, score) ==
    [i \in 1..Len(tbl) |->
        IF tbl[i].id = expense_id
        THEN [tbl[i] EXCEPT !.is_anomaly = is_anomaly]
        ELSE tbl[i]]

\* ExpenseDatabase.update_anomaly_status: UPDATE ... WHERE id = ?
update_anomaly_status(tbl, expense_id, is_anomaly, score) ==
    [i \in 1..Len(tbl) |->
        IF tbl[i].id = expense_id
        THEN [tbl[i] EXCEPT !.is_anomaly = is_anomaly, !.anomaly_score = score]
        ELSE tbl[i]]

-----------------------------------------------------------------------------
(* Feature Builder (AnomalyDetector.prepare_features) *)

NumericColumns ==
    <<(<<"num", "amount">>), (<<"num", "hour">>), (<<"num", "day_of_week">>),
      (<<"num", "day_of_month">>)>>

\* the values of a column that occur in the frame, in get_dummies' sorted order
CatVocabulary(df) ==
    SelectSeq(Categories, LAMBDA c : \E i \in 1..Len(df) : df[i].category = c)

PayVocabulary(df) ==
    SelectSeq(PaymentMethods, LAMBDA p : \E i \in 1..Len(df) : df[i].payment_method = p)

\* the columns of the frame prepare_features concatenates
FeatureColumns(df) ==
    NumericColumns
      \o [k \in 1..Len(CatVocabulary(df)) |-> <<"cat", CatVocabulary(df)[k]>>]
      \o [k \in 1..Len(PayVocabulary(df)) |-> <<"pay", PayVocabulary(df)[k]>>]

FeatureRow(r, cv, pv) ==
    <<r.amount, r.hour, DayOfWeek(r.day), ToDate(r.day).day>>
      \o [k \in 1..Len(cv) |-> IF r.category = cv[k] THEN 1 ELSE 0]
      \o [k \in 1..Len(pv) |-> IF r.payment_method = pv[k] THEN 1 ELSE 0]
      \o <<>>

\* feats.values: one row per transaction, columns as FeatureColumns(df)
prepare_features(df) ==
    LET cv == CatVocabulary(df)
        pv == PayVocabulary(df)
    IN  [i \in 1..Len(df) |-> FeatureRow(df[i], cv, pv)] \o <<>>

\* number of columns of a matrix of the given frame
NumColumns(df) == Len(FeatureColumns(df))

-----------------------------------------------------------------------------
(* StandardScaler (library): fit records the shape and the column means;   *)
(* transform rejects a matrix of another width and centres the rest.       *)
(* Centred values are kept times n_samples, the division by the column     *)
(* deviation (a positive factor per column) is left out.                   *)

RECURSIVE ColSum(_, _, _)
ColSum(X, j, k) == IF k = 0 THEN 0 ELSE X[k][j] + ColSum(X, j, k - 1)

Unfitted == [fitted |-> FALSE, n_features_in |-> 0, n_samples |-> 0, stats |-> <<>>]

ScalerFit(X, ncols) ==
    [fitted |-> TRUE, n_features_in |-> ncols, n_samples |-> Len(X),
     stats |-> [j \in 1..ncols |-> ColSum(X, j, Len(X))] \o <<>>]

\* transform raises ValueError unless the widths agree
ScalerAccepts(sc, ncols) == sc.fitted /\ sc.n_features_in = ncols

ScalerTransform(sc, X) ==
    [i \in 1..Len(X) |->
        [j \in 1..sc.n_features_in |-> sc.n_samples * X[i][j] - sc.stats[j]] \o <<>>]
      \o <<>>

-----------------------------------------------------------------------------
(* IsolationForest(contamination, random_state=42, n_estimators=100)       *)
(* (library).  fit discards the previous trees and is a function of the    *)
(* training matrix alone (fixed integer seed).  score_samples lies in      *)
(* [-1, 0] and is kept in hundredths; the stand-in used here is the share  *)
(* of training cells that differ from the sample's.  offset_ is the        *)
(* contamination percentile of the training scores and predict is -1       *)
(* strictly below it.                                                      *)

RECURSIVE CountDiff(_, _, _, _)
CountDiff(T, x, ncols, k) ==
    IF k = 0 THEN 0
    ELSE Cardinality({j \in 1..ncols : T[k][j] # x[j]}) + CountDiff(T, x, ncols, k - 1)

RawScore(T, ncols, x) ==
    IF Len(T) = 0 \/ ncols = 0 THEN 0
    ELSE -((100 * CountDiff(T, x, ncols, Len(T))) \div (Len(T) * ncols))

\* the k-th smallest (k from 0) of the training scores
Percentile(T, ncols) ==
    LET sc == [i \in 1..Len(T) |-> RawScore(T, ncols, T[i])] \o <<>>
        k  == (Len(T) * ANOMALY_CONTAMINATION_PCT) \div 100
    IN  CHOOSE v \in {sc[i] : i \in 1..Len(T)} :
            /\ Cardinality({i \in 1..Len(T) : sc[i] < v}) <= k
            /\ Cardinality({i \in 1..Len(T) : sc[i] <= v}) > k

ForestFit(T, ncols) ==
    [fitted |-> TRUE, n_features_in |-> ncols, train |-> T,
     offset |-> Percentile(T, ncols)]

NoForest == [fitted |-> FALSE, n_features_in |-> 0, train |-> <<>>, offset |-> 0]

score_samples(m, x) == RawScore(m.train, m.n_features_in, x)

\* predict: -1 marks an outlier
predict(m, x) == IF score_samples(m, x) < m.offset THEN -1 ELSE 1

-----------------------------------------------------------------------------
(* What a call hands back, with the locals the properties speak about.     *)
(* stage says where the call ended; raised names the exception that left   *)
(* the call, "none" for a normal return.                                   *)

NoRet ==
    [op |-> "none", user_id |-> 0, expense_id |-> 0, stage |-> "none",
     raised |-> "none", n_rows |-> 0, is_anomaly |-> FALSE, score |-> 0,
     message |-> "", df |-> <<>>, flagged |-> <<>>, hist_columns |-> <<>>,
     new_columns |-> <<>>, success |-> FALSE, points |-> <<>>, last_ds |-> 0,
     total_predicted |-> [n |-> 0, d |-> 1], category_forecasts |-> <<>>,
     projection |-> <<>>, n_written |-> 0]

\* a local variable: v is worked out once and named in the rest F of the body
Bind(v, F(_)) == F(v)

RECURSIVE SumAmount(_, _)
SumAmount(df, k) == IF k = 0 THEN 0 ELSE df[k].amount + SumAmount(df, k - 1)

RECURSIVE SumSquares(_, _)
SumSquares(df, k) ==
    IF k = 0 THEN 0 ELSE df[k].amount * df[k].amount + SumSquares(df, k - 1)

-----------------------------------------------------------------------------
(* Explanation Generator (AnomalyDetector._explain).  With n precedents of *)
(* sum S and sum of squares Q, mean = S/n and the population deviation is  *)
(* sqrt(n*Q - S*S)/n, so amt > mean + 2*std is decided on n*amt - S and    *)
(* 4*(n*Q - S*S) without leaving the integers.  The operator does not      *)
(* depend on the unit of the amounts.                                      *)

\* dev * dev > v4, where v4 fits 32 bits and the square of dev need not
SquareExceeds(dev, v4) ==
    \/ dev > 46340
    \/ dev < -46340
    \/ dev * dev > v4

_explain(expense, hist) ==
    LET cat_hist == SelectSeq(hist, LAMBDA r : r.category = expense.category)
        n   == Len(cat_hist)
        S   == SumAmount(cat_hist, n)
        Q   == SumSquares(cat_hist, n)
        dev == n * expense.amount - S
        v4  == 4 * (n * Q - S * S)
    IN  IF n >= 3 /\ dev > 0 /\ SquareExceeds(dev, v4) THEN "higher than average"
        ELSE IF n >= 3 /\ dev < 0 /\ SquareExceeds(dev, v4) THEN "unusually low"
        ELSE "unusual pattern"

-----------------------------------------------------------------------------
(* Anomaly Scorer (AnomalyDetector) *)

\* df["is_anomaly"], df["anomaly_score"] of lines 47-48, with the row ids
LabelFrame(df, m, Xs) ==
    [k \in 1..Len(df) |->
        [id |-> df[k].id,
         is_anomaly |-> predict(m, Xs[k]) = -1,
         anomaly_score |-> -score_samples(m, Xs[k])]] \o <<>>

\* a write-back in one transaction: nothing is stored short of the last row
WriteBack_atomic(tbl, lab, k) ==
    [i \in 1..Len(tbl) |->
        IF k = Len(lab) /\ \E j \in 1..k : lab[j].id = tbl[i].id
        THEN LET j == CHOOSE j \in 1..k : lab[j].id = tbl[i].id
             IN  [tbl[i] EXCEPT !.is_anomaly = lab[j].is_anomaly,
                                !.anomaly_score = lab[j].anomaly_score]
        ELSE tbl[i]]

\* the loop of lines 50-55 over the first k rows of the labelled frame
RECURSIVE WriteBack(_, _, _)
WriteBack(tbl, lab, k) ==
    IF k = 0 THEN tbl
    ELSE update_anomaly_status(WriteBack(tbl, lab, k - 1),
                               lab[k].id, lab[k].is_anomaly, lab[k].anomaly_score)

\* a detector that keeps the forest of an earlier call when it fits the frame
detect_anomalies_cached(tbl, t, sc, m, user_id) ==
    Bind(get_user_expenses(tbl, t, user_id, LookbackDays), LAMBDA df :
    Bind([NoRet EXCEPT !.op = "detect", !.user_id = user_id, !.n_rows = Len(df)],
         LAMBDA base :
    IF Len(df) < MinAnomalyRows
    THEN [expenses |-> tbl, scaler |-> sc, model |-> m,
          ret |-> [base EXCEPT !.stage = "cold"]]
    ELSE
    Bind(prepare_features(df), LAMBDA X :
    Bind(ScalerFit(X, NumColumns(df)), LAMBDA sc2 :
    Bind(ScalerTransform(sc2, X), LAMBDA Xs :
    Bind(IF m.fitted /\ m.n_features_in = NumColumns(df)
         THEN m ELSE ForestFit(Xs, NumColumns(df)), LAMBDA m2 :
    Bind(LabelFrame(df, m2, Xs), LAMBDA lab :
    [expenses |-> WriteBack(tbl, lab, Len(lab)), scaler |-> sc2, model |-> m2,
     ret |-> [base EXCEPT !.stage = "scored", !.df = lab,
                          !.flagged = SelectSeq(lab, LAMBDA r : r.is_anomaly)]])))))))

\* the outcome of detect_anomalies: the store, the detector and the return
detect_anomalies(tbl, t, sc, m, user_id) ==
    Bind(get_user_expenses(tbl, t, user_id, LookbackDays), LAMBDA df :
    Bind([NoRet EXCEPT !.op = "detect", !.user_id = user_id, !.n_rows = Len(df)],
         LAMBDA base :
    IF Len(df) < MinAnomalyRows
    THEN [expenses |-> tbl, scaler |-> sc, model |-> m,
          ret |-> [base EXCEPT !.stage = "cold"]]
    ELSE
    Bind(prepare_features(df), LAMBDA X :
    Bind(ScalerFit(X, NumColumns(df)), LAMBDA sc2 :
    Bind(ScalerTransform(sc2, X), LAMBDA Xs :
    Bind(ForestFit(Xs, NumColumns(df)), LAMBDA m2 :
    Bind(LabelFrame(df, m2, Xs), LAMBDA lab :
    [expenses |-> WriteBack(tbl, lab, Len(lab)), scaler |-> sc2, model |-> m2,
     ret |-> [base EXCEPT !.stage = "scored", !.df = lab,
                          !.flagged = SelectSeq(lab, LAMBDA r : r.is_anomaly)]])))))))

\* lines 67-81 of check_new_expense: the target row new_df is scored against
\* the rest hist of the frame
ScoreTarget(tbl, sc, m, base, expense_id, new_df, hist) ==
    Bind(prepare_features(hist), LAMBDA X_hist :
    Bind(prepare_features(new_df), LAMBDA X_new :
    Bind(ScalerFit(X_hist, NumColumns(hist)), LAMBDA sc2 :
    Bind([base EXCEPT !.hist_columns = FeatureColumns(hist),
                      !.new_columns = FeatureColumns(new_df)], LAMBDA fit :
    IF ~ScalerAccepts(sc2, NumColumns(new_df))
    THEN [expenses |-> tbl, scaler |-> sc2, model |-> m,
          ret |-> [fit EXCEPT !.stage = "raised", !.raised = "ValueError"]]
    ELSE
    Bind(ScalerTransform(sc2, X_hist), LAMBDA Xs_hist :
    Bind(ScalerTransform(sc2, X_new), LAMBDA Xs_new :
    Bind(ForestFit(Xs_hist, NumColumns(hist)), LAMBDA m2 :
    Bind(predict(m2, Xs_new[1]) = -1, LAMBDA is_anom :
    Bind(-score_samples(m2, Xs_new[1]), LAMBDA score :
    [expenses |-> update_anomaly_status(tbl, expense_id, is_anom, score),
     scaler |-> sc2, model |-> m2,
     ret |-> [fit EXCEPT !.stage = "scored", !.is_anomaly = is_anom, !.score = score,
                         !.message = _explain(new_df[1], hist)]])))))))))

\* check_new_expense without the early return of lines 64-65
check_new_expense_unguarded(tbl, t, sc, m, user_id, expense_id) ==
    Bind(get_user_expenses(tbl, t, user_id, LookbackDays), LAMBDA df :
    Bind([NoRet EXCEPT !.op = "check", !.user_id = user_id,
                       !.expense_id = expense_id, !.n_rows = Len(df)], LAMBDA base :
    IF Len(df) < MinAnomalyRows
    THEN [expenses |-> tbl, scaler |-> sc, model |-> m,
          ret |-> [base EXCEPT !.stage = "cold",
                               !.message = "Not enough data for anomaly detection"]]
    ELSE ScoreTarget(tbl, sc, m, base, expense_id,
                     SelectSeq(df, LAMBDA r : r.id = expense_id),
                     SelectSeq(df, LAMBDA r : r.id # expense_id))))

\* the outcome of check_new_expense
check_new_expense(tbl, t, sc, m, user_id, expense_id) ==
    Bind(get_user_expenses(tbl, t, user_id, LookbackDays), LAMBDA df :
    Bind([NoRet EXCEPT !.op = "check", !.user_id = user_id,
                       !.expense_id = expense_id, !.n_rows = Len(df)], LAMBDA base :
    IF Len(df) < MinAnomalyRows
    THEN [expenses |-> tbl, scaler |-> sc, model |-> m,
          ret |-> [base EXCEPT !.stage = "cold",
                               !.message = "Not enough data for anomaly detection"]]
    ELSE IF SelectSeq(df, LAMBDA r : r.id = expense_id) = <<>>
    THEN [expenses |-> tbl, scaler |-> sc, model |-> m,
          ret |-> [base EXCEPT !.stage = "not_found", !.message = "Expense not found"]]
    ELSE ScoreTarget(tbl, sc, m, base, expense_id,
                     SelectSeq(df, LAMBDA r : r.id = expense_id),
                     SelectSeq(df, LAMBDA r : r.id # expense_id))))

-----------------------------------------------------------------------------
(* Exact fractions standing for the floats of predictive_analyzer.py *)

Frac(n, d) == [n |-> n, d |-> d]

FracAdd(a, b) == Frac(a.n * b.d + b.n * a.d, a.d * b.d)

FracSub(a, b) == Frac(a.n * b.d - b.n * a.d, a.d * b.d)

FracMul(a, b) == Frac(a.n * b.n, a.d * b.d)

\* a > b, denominators positive
FracGT(a, b) == a.n * b.d > b.n * a.d

\* max(0.0, a)
FracMax0(a) == IF a.n > 0 THEN a ELSE Frac(0, a.d)

Max(a, b) == IF a >= b THEN a ELSE b

-----------------------------------------------------------------------------
(* Forecasting Engine (PredictiveAnalyzer) *)

RECURSIVE AscendingDays(_)
AscendingDays(D) ==
    IF D = {} THEN <<>>
    ELSE LET f == CHOOSE x \in D : \A y \in D : x <= y
         IN  <<f>> \o AscendingDays(D \ {f})

RECURSIVE DaySum(_, _, _)
DaySum(df, day, k) ==
    IF k = 0 THEN 0
    ELSE (IF df[k].day = day THEN df[k].amount ELSE 0) + DaySum(df, day, k - 1)

\* groupby("date")["amount"].sum(): one (ds, y) per calendar day that has rows
_daily_series(df) ==
    LET days == AscendingDays({df[k].day : k \in 1..Len(df)})
    IN  [i \in 1..Len(days) |-> [ds |-> days[i], y |-> DaySum(df, days[i], Len(df))]]

\* Prophet.fit raises ValueError on fewer than two rows
ProphetFitAccepts(ts) == Len(ts) >= 2

\* make_future_dataframe(periods): the history dates, then the following days
make_future_dataframe(ts, periods) ==
    [i \in 1..Len(ts) |-> ts[i].ds] \o [k \in 1..periods |-> ts[Len(ts)].ds + k]

\* what a fitted Prophet may answer: a line through the horizon with an
\* interval around it, yhat_lower <= yhat <= yhat_upper, any sign
ProphetFits ==
    {[level |-> 15, slope |-> -1, width |-> 4],
     [level |-> 3, slope |-> 0, width |-> 0]}

ProphetPredict(fit, ts, future) ==
    [i \in 1..Len(future) |->
        LET yhat == fit.level + fit.slope * (future[i] - ts[Len(ts)].ds)
        IN  [ds |-> future[i], yhat |-> yhat,
             yhat_lower |-> yhat - fit.width, yhat_upper |-> yhat + fit.width]]

\* the filter of line 37 with >= for >
FutureRows_inclusive(fcst, ts) == SelectSeq(fcst, LAMBDA r : r.ds >= ts[Len(ts)].ds)

\* line 37: the rows of the forecast dated after the last day of the series
FutureRows(fcst, ts) == SelectSeq(fcst, LAMBDA r : r.ds > ts[Len(ts)].ds)

\* a point whose bounds are passed on as predicted
ForecastPoint_bounds_unclipped(r) ==
    [date |-> ToDate(r.ds),
     amount |-> Max(0, r.yhat),
     lower_bound |-> r.yhat_lower,
     upper_bound |-> r.yhat_upper]

\* lines 39-46: one point per forecast row, each value clipped at zero
ForecastPoint(r) ==
    [date |-> ToDate(r.ds),
     amount |-> Max(0, r.yhat),
     lower_bound |-> Max(0, r.yhat_lower),
     upper_bound |-> Max(0, r.yhat_upper)]

RECURSIVE SumPoints(_, _)
SumPoints(out, k) == IF k = 0 THEN 0 ELSE out[k].amount + SumPoints(out, k - 1)

\* ExpenseDatabase.save_forecast: one appended row per point
save_forecast(log, user_id, out) ==
    log \o [k \in 1..Len(out) |->
              [user_id |-> user_id, forecast_date |-> out[k].date,
               predicted_amount |-> out[k].amount, category |-> "total"]]

\* the outcome of forecast_expenses_prophet.  fit is the model Prophet
\* arrives at; cmp_raises says whether comparing the datetime64 column with
\* the datetime.date maximum of line 37 is rejected by the installed pandas
\* (TypeError since pandas 1.0) or carried out.
forecast_expenses_prophet(tbl, log, t, user_id, fit, cmp_raises) ==
    Bind(get_user_expenses(tbl, t, user_id, LookbackDays), LAMBDA df :
    Bind([NoRet EXCEPT !.op = "forecast", !.user_id = user_id, !.n_rows = Len(df)],
         LAMBDA base :
    IF Len(df) < MIN_DATA_POINTS
    THEN [forecasts |-> log,
          ret |-> [base EXCEPT !.stage = "cold",
                               !.message = "Not enough data for forecasting"]]
    ELSE
    Bind(_daily_series(df), LAMBDA ts :
    IF ~ProphetFitAccepts(ts)
    THEN [forecasts |-> log,
          ret |-> [base EXCEPT !.stage = "raised", !.raised = "ValueError"]]
    ELSE IF cmp_raises
    THEN [forecasts |-> log,
          ret |-> [base EXCEPT !.stage = "raised", !.raised = "TypeError"]]
    ELSE
    Bind(ProphetPredict(fit, ts, make_future_dataframe(ts, FORECAST_DAYS)), LAMBDA fcst :
    Bind(FutureRows(fcst, ts), LAMBDA future_fcst :
    Bind([k \in 1..Len(future_fcst) |-> ForecastPoint(future_fcst[k])] \o <<>>,
         LAMBDA out :
    [forecasts |-> save_forecast(log, user_id, out),
     ret |-> [base EXCEPT !.stage = "done", !.success = TRUE, !.points = out,
                          !.last_ds = ts[Len(ts)].ds,
                          !.total_predicted = Frac(SumPoints(out, Len(out)), 1)]]))))))

\* df["category"].unique(): the categories in order of first appearance
RECURSIVE UniqueCategories(_, _)
UniqueCategories(df, k) ==
    IF k = 0 THEN <<>>
    ELSE LET before == UniqueCategories(df, k - 1)
         IN  IF \E i \in 1..Len(before) : before[i] = df[k].category
             THEN before ELSE Append(before, df[k].category)

RECURSIVE SumY(_, _)
SumY(ts, k) == IF k = 0 THEN 0 ELSE ts[k].y + SumY(ts, k - 1)

RECURSIVE SumYY(_, _)
SumYY(ts, k) == IF k = 0 THEN 0 ELSE ts[k].y * ts[k].y + SumYY(ts, k - 1)

RECURSIVE SumFracs(_, _)
SumFracs(fs, k) ==
    IF k = 0 THEN Frac(0, 1) ELSE FracAdd(SumFracs(fs, k - 1), fs[k].predicted_total)

\* one category's summary; the volatility is kept squared (the variance)
CategorySummary(df, c) ==
    Bind(_daily_series(SelectSeq(df, LAMBDA r : r.category = c)), LAMBDA ts :
    Bind(SumY(ts, Len(ts)), LAMBDA S :
    [category |-> c,
     predicted_total |-> Frac(S * FORECAST_DAYS, Len(ts)),
     daily_average |-> Frac(S, Len(ts)),
     volatility_sq |-> Frac(Len(ts) * SumYY(ts, Len(ts)) - S * S, Len(ts) * Len(ts))]))

\* the return of forecast_by_category (it writes nothing)
forecast_by_category(tbl, t, user_id) ==
    Bind(get_user_expenses(tbl, t, user_id, LookbackDays), LAMBDA df :
    Bind([NoRet EXCEPT !.op = "by_category", !.user_id = user_id, !.n_rows = Len(df)],
         LAMBDA base :
    IF Len(df) < MIN_DATA_POINTS
    THEN [base EXCEPT !.stage = "cold", !.message = "Not enough data"]
    ELSE
    Bind(SelectSeq(UniqueCategories(df, Len(df)),
             LAMBDA c : Len(SelectSeq(df, LAMBDA r : r.category = c)) >= MinCategoryRows),
         LAMBDA cats :
    Bind([k \in 1..Len(cats) |-> CategorySummary(df, cats[k])] \o <<>>, LAMBDA summary :
    [base EXCEPT !.stage = "done", !.success = TRUE,
                 !.category_forecasts = summary,
                 !.total_predicted = SumFracs(summary, Len(summary))]))))

-----------------------------------------------------------------------------
(* Budget Projector (PredictiveAnalyzer.detect_budget_overrun) *)

NoPrefs == [exists |-> FALSE, monthly_income |-> 0]

\* the return of detect_budget_overrun: <<>> is None.  A NULL income and an
\* income of 0 are both falsy and both kept as 0.
detect_budget_overrun(tbl, prefs, t, user_id) ==
    IF ~prefs[user_id].exists \/ prefs[user_id].monthly_income = 0
    THEN [NoRet EXCEPT !.op = "budget", !.user_id = user_id, !.stage = "no_income"]
    ELSE
    Bind(get_user_expenses(tbl, t, user_id, BudgetWindowDays), LAMBDA df :
    Bind(SumAmount(df, Len(df)), LAMBDA current_total :
    Bind(Max(1, ToDate(t.day).day), LAMBDA days_passed :
    Bind(LastDayOfMonth(t.day) - t.day, LAMBDA remaining :
    Bind(Frac(current_total, days_passed), LAMBDA daily_avg :
    Bind(FracAdd(Frac(current_total, 1), FracMul(daily_avg, Frac(remaining, 1))),
         LAMBDA projected :
    Bind(FracMul(Frac(prefs[user_id].monthly_income, 1), Frac(1, 2)), LAMBDA budget_limit :
    [NoRet EXCEPT !.op = "budget", !.user_id = user_id, !.stage = "done",
        !.n_rows = Len(df),
        !.projection = <<[current_spending |-> current_total,
                          projected_total |-> projected,
                          budget_limit |-> budget_limit,
                          will_exceed |-> FracGT(projected, budget_limit),
                          excess_amount |-> FracMax0(FracSub(projected, budget_limit)),
                          days_remaining |-> remaining]>>])))))))

-----------------------------------------------------------------------------
(* Initial states: a store left by earlier runs (the tables are created IF *)
(* NOT EXISTS), a fresh detector.  A store holds n expenses of user 1, one *)
(* every gap days up to today, in one of a few patterns.                   *)

Patterns == {"uniform", "last_odd", "first_odd", "alternating"}

StoredRow(i, n, gap, pat, t) ==
    LET odd == \/ pat = "last_odd" /\ i = n
               \/ pat = "alternating" /\ i % 2 = 0
    IN  Row(i, 1,
            IF odd THEN 90 ELSE 20,
            IF odd \/ (pat = "first_odd" /\ i = 1) THEN "rent" ELSE "food",
            IF odd THEN "cash" ELSE "UPI",
            t.day - (n - i) * gap,
            IF i % 2 = 1 THEN 9 ELSE 20)

InitWith(sizes, gaps, patterns, clocks) ==
    /\ now \in clocks
    /\ \E n \in sizes, gap \in gaps, pat \in patterns :
           expenses = [i \in 1..n |-> StoredRow(i, n, gap, pat, now)]
    /\ user_preferences = [u \in Users |-> NoPrefs]
    /\ forecasts = <<>>
    /\ scaler = Unfitted
    /\ model = NoForest
    /\ adds = 0
    /\ ticks = 0
    /\ ret = NoRet

\* stores around the threshold of the anomaly operations
InitDetector ==
    InitWith({0} \cup ((MinAnomalyRows - 1) .. MaxTx), {1, 10},
             Patterns \ {"alternating"},
             {[day |-> ToOrdinal(1, 4, 10), hour |-> 12]})

\* stores around the threshold of the forecasts, and the ten expenses of a
\* month as far as its tenth day
InitAnalyzer ==
    InitWith({0, 10, MIN_DATA_POINTS - 1, MIN_DATA_POINTS, MIN_DATA_POINTS + 1},
             {0, 1, 3}, {"uniform", "alternating"},
             {[day |-> ToOrdinal(1, 4, 10), hour |-> 12],
              [day |-> ToOrdinal(1, 2, 29), hour |-> 12]})

-----------------------------------------------------------------------------
(* Operations *)

\* the store and the detector as a call of the detector leaves them
Commit(o) ==
    /\ expenses' = o.expenses
    /\ scaler' = o.scaler
    /\ model' = o.model
    /\ ret' = o.ret

\* AnomalyDetector.detect_anomalies(user_id)
DetectAnomalies(u) ==
    /\ Commit(detect_anomalies(expenses, now, scaler, model, u))
    /\ UNCHANGED <<user_preferences, forecasts, now, adds, ticks>>

\* detect_anomalies(user_id) given up by its caller after k of its row
\* updates: scaler and forest are fitted by then, each update_anomaly_status
\* so far has committed on its own connection, and nothing is returned
AbandonedDetect(o, tbl, k) ==
    [o EXCEPT !.expenses = WriteBack(tbl, o.ret.df, k),
              !.ret = [o.ret EXCEPT !.stage = "abandoned", !.flagged = <<>>,
                                    !.n_written = k]]

DetectAnomaliesAbandoned(u, k) ==
    /\ detect_anomalies(expenses, now, scaler, model, u).ret.stage = "scored"
    /\ k < Len(get_user_expenses(expenses, now, u, LookbackDays))
    /\ Commit(AbandonedDetect(detect_anomalies(expenses, now, scaler, model, u),
                              expenses, k))
    /\ UNCHANGED <<user_preferences, forecasts, now, adds, ticks>>

\* AnomalyDetector.check_new_expense(user_id, expense_id)
CheckNewExpense(u, e) ==
    /\ Commit(check_new_expense(expenses, now, scaler, model, u, e))
    /\ UNCHANGED <<user_preferences, forecasts, now, adds, ticks>>

\* ExpenseDatabase.add_expense: INSERT with the default CURRENT_TIMESTAMP
add_expense(tbl, t, u, amt, cat, pay) ==
    Append(tbl, Row(Len(tbl) + 1, u, amt, cat, pay, t.day, t.hour))

\* telegram_bot.add_expense: the parsed expense is stored, then checked
AddExpense(u, amt, cat, pay) ==
    /\ adds < MaxAdds
    /\ Commit(check_new_expense(add_expense(expenses, now, u, amt, cat, pay),
                                now, scaler, model, u, Len(expenses) + 1))
    /\ adds' = adds + 1
    /\ UNCHANGED <<user_preferences, forecasts, now, ticks>>

\* the forecasts table and the return as a forecast leaves them
CommitForecast(o) ==
    /\ forecasts' = o.forecasts
    /\ ret' = o.ret

\* PredictiveAnalyzer.forecast_expenses_prophet(user_id)
ForecastExpensesProphet(u, fit, cmp_raises) ==
    /\ CommitForecast(forecast_expenses_prophet(expenses, forecasts, now, u,
                                                 fit, cmp_raises))
    /\ (Len(forecasts) < MaxForecastRuns * FORECAST_DAYS \/ forecasts' = forecasts)
    /\ UNCHANGED <<expenses, user_preferences, scaler, model, now, adds, ticks>>

\* PredictiveAnalyzer.forecast_by_category(user_id)
ForecastByCategory(u) ==
    /\ ret' = forecast_by_category(expenses, now, u)
    /\ UNCHANGED <<expenses, user_preferences, forecasts, scaler, model, now, adds, ticks>>

\* PredictiveAnalyzer.detect_budget_overrun(user_id)
DetectBudgetOverrun(u) ==
    /\ ret' = detect_budget_overrun(expenses, user_preferences, now, u)
    /\ UNCHANGED <<expenses, user_preferences, forecasts, scaler, model, now, adds, ticks>>

\* telegram_bot.setincome_cmd -> ExpenseDatabase.set_user_preferences
SetIncome(u, income) ==
    /\ user_preferences' =
           [user_preferences EXCEPT ![u] = [exists |-> TRUE, monthly_income |-> income]]
    /\ ret' = [NoRet EXCEPT !.op = "setincome", !.user_id = u]
    /\ UNCHANGED <<expenses, forecasts, scaler, model, now, adds, ticks>>

\* a day goes by between two requests
Tick ==
    /\ ticks < MaxTicks
    /\ now' = [now EXCEPT !.day = @ + 1]
    /\ ticks' = ticks + 1
    /\ ret' = NoRet
    /\ UNCHANGED <<expenses, user_preferences, forecasts, scaler, model, adds>>

\* the ids a caller asks about: the oldest and one that is not there (the
\* newest is asked about when it is added)
Targets == {1, Len(expenses) + 1}

\* what the language model parses out of a message
ParsedExpenses ==
    {[amount |-> 20, category |-> "food", payment_method |-> "UPI"],
     [amount |-> 90, category |-> "rent", payment_method |-> "cash"]}

\* the anomaly detector behind the bot
NextDetector ==
    \/ \E u \in Users : DetectAnomalies(u)
    \/ \E u \in Users, e \in Targets : CheckNewExpense(u, e)
    \/ \E u \in Users, x \in ParsedExpenses :
           AddExpense(u, x.amount, x.category, x.payment_method)
    \/ Tick

\* the predictive analyzer behind the bot.  It reads amount, category and
\* timestamp of the expenses and never the anomaly columns.
NextAnalyzer ==
    \/ \E u \in Users, fit \in ProphetFits, cmp_raises \in BOOLEAN :
           ForecastExpensesProphet(u, fit, cmp_raises)
    \/ \E u \in Users : ForecastByCategory(u)
    \/ \E u \in Users : DetectBudgetOverrun(u)
    \/ \E u \in Users, income \in Incomes : SetIncome(u, income)
    \/ Tick

SpecDetector == InitDetector /\ [][NextDetector]_vars

SpecAnalyzer == InitAnalyzer /\ [][NextAnalyzer]_vars

-----------------------------------------------------------------------------
(* The explanation generator on its own: _explain applied to an expense    *)
(* and a history, amounts in paise so that 100.01 is the integer 10001.    *)

PrecedentCounts == 0 .. 4
PrecedentAmounts == {10000, 10001}
ExplainedAmounts == {9999, 10000, 10001, 50000}

\* the histories of n expenses, one a day up to yesterday
HistoryFrames ==
    UNION {[1..n -> [amount : PrecedentAmounts, category : {"food", "rent"}]]
           : n \in PrecedentCounts}

InitExplain ==
    /\ now = [day |-> ToOrdinal(1, 4, 10), hour |-> 12]
    /\ \E h \in HistoryFrames :
           expenses = [i \in 1..Len(h) |->
                          Row(i, 1, h[i].amount, h[i].category, "UPI",
                              now.day - (Len(h) + 1 - i), 9)]
    /\ user_preferences = [u \in Users |-> NoPrefs]
    /\ forecasts = <<>>
    /\ scaler = Unfitted
    /\ model = NoForest
    /\ adds = 0
    /\ ticks = 0
    /\ ret = NoRet

\* AnomalyDetector._explain(expense, hist); the expense is kept in ret.df
Explain(u, amt, cat) ==
    /\ ret' = [NoRet EXCEPT
                  !.op = "explain", !.user_id = u,
                  !.df = <<Row(Len(expenses) + 1, u, amt, cat, "UPI", now.day, now.hour)>>,
                  !.message = _explain(Row(Len(expenses) + 1, u, amt, cat, "UPI",
                                           now.day, now.hour), expenses)]
    /\ UNCHANGED <<expenses, user_preferences, forecasts, scaler, model, now, adds, ticks>>

NextExplain ==
    \E u \in Users, amt \in ExplainedAmounts, cat \in {"food", "rent"} : Explain(u, amt, cat)

SpecExplain == InitExplain /\ [][NextExplain]_vars

-----------------------------------------------------------------------------
(* The batch detection on its own, with a caller that may give a run up.   *)
(* The store was scored by an earlier run where it had the rows for it,    *)
(* and one expense has been added since.                                   *)

InitBatch ==
    /\ now = [day |-> ToOrdinal(1, 4, 10), hour |-> 12]
    /\ \E n \in (MinAnomalyRows - 1) .. (MaxTx - 1), pat \in {"uniform", "last_odd"},
          x \in ParsedExpenses :
           expenses =
               add_expense(
                   detect_anomalies([i \in 1..n |-> StoredRow(i, n, 1, pat, now)],
                                    now, Unfitted, NoForest, 1).expenses,
                   now, 1, x.amount, x.category, x.payment_method)
    /\ user_preferences = [u \in Users |-> NoPrefs]
    /\ forecasts = <<>>
    /\ scaler = Unfitted
    /\ model = NoForest
    /\ adds = 0
    /\ ticks = 0
    /\ ret = NoRet

NextBatch ==
    \/ \E u \in Users : DetectAnomalies(u)
    \/ \E u \in Users, k \in 0 .. MaxTx : DetectAnomaliesAbandoned(u, k)

SpecBatch == InitBatch /\ [][NextBatch]_vars

-----------------------------------------------------------------------------
(* Vocabulary of the properties, stated on the tables and the clock alone  *)

\* age of a row in hours
AgeHours(r) == 24 * (now.day - r.day) + (now.hour - r.hour)

\* ids of the user's expenses no older than the given number of days
WindowIds(u, days) ==
    {i \in 1..Len(expenses) : expenses[i].user_id = u /\ AgeHours(expenses[i]) <= 24 * days}

\* the anomaly columns of the table, row by row
AnomalyColumns ==
    [i \in 1..Len(expenses) |-> <<expenses[i].is_anomaly, expenses[i].anomaly_score>>]

\* a step leaves the anomaly columns of every row it found as they were
\* (a row inserted by the step carries the column defaults)
AnomalyColumnsKept ==
    /\ Len(expenses') >= Len(expenses)
    /\ \A i \in 1..Len(expenses') :
           AnomalyColumns'[i] = IF i <= Len(expenses) THEN AnomalyColumns[i] ELSE <<FALSE, 0>>

-----------------------------------------------------------------------------
(* C1: cold start.  When the caller's 90-day window holds fewer than 10    *)
(* expenses, detect_anomalies returns an empty frame, check_new_expense    *)
(* returns (False, 0.0, ...), and neither changes a stored is_anomaly or   *)
(* anomaly_score.                                                          *)

C1_ColdStart ==
    [][(ret'.op \in {"detect", "check"}
          /\ Cardinality(WindowIds(ret.user_id, 90))' < 10)
       => /\ ret'.raised = "none"
          /\ ret'.flagged = <<>>
          /\ ret'.is_anomaly = FALSE
          /\ ret'.score = 0
          /\ AnomalyColumnsKept]_vars

\* detect_anomalies has returned on nine expenses in the window, a tenth
\* being older, after an earlier run had stored scores
C1_Witness ==
    /\ ret.op = "detect"
    /\ Cardinality(WindowIds(1, 90)) = 9
    /\ Len(expenses) > 9
    /\ \E i \in 1..Len(expenses) : expenses[i].anomaly_score > 0

-----------------------------------------------------------------------------
(* C2: in check_new_expense the matrix the scaler and the model are fit on *)
(* (the history without the target) and the matrix of the target that is   *)
(* transformed and scored have the same one-hot columns.                   *)

C2_SameVocabulary ==
    (ret.op = "check" /\ ret.stage \in {"scored", "raised"})
    => ret.hist_columns = ret.new_columns

-----------------------------------------------------------------------------
(* C3: every call of the five operations ends with its normal return; none *)
(* ends with an exception.                                                 *)

C3_NoCallRaises == ret.raised = "none"

-----------------------------------------------------------------------------
(* C4: check_new_expense fits and scores only when the window holds at     *)
(* least 10 expenses other than the target; with fewer than 10 others it   *)
(* reports insufficient data, (False, 0.0).                                *)

C4_TenBesidesTarget ==
    (ret.op = "check"
       /\ Cardinality(WindowIds(ret.user_id, 90) \ {ret.expense_id}) < 10)
    => /\ ret.stage = "cold"
       /\ ret.is_anomaly = FALSE
       /\ ret.score = 0

-----------------------------------------------------------------------------
(* C5: when the target id is not among the caller's expenses of the 90-day *)
(* window, check_new_expense returns (False, 0.0, ...) - "Expense not      *)
(* found" once the window holds 10 expenses, the cold-start message below  *)
(* that - and neither fits the scaler or the model nor writes to the       *)
(* store.                                                                  *)

C5_AbsentTarget ==
    [][(ret'.op = "check" /\ ret'.expense_id \notin WindowIds(ret.user_id, 90)')
       => /\ ret'.raised = "none"
          /\ ret'.is_anomaly = FALSE
          /\ ret'.score = 0
          /\ ret'.message = IF Cardinality(WindowIds(ret.user_id, 90))' >= 10
                            THEN "Expense not found"
                            ELSE "Not enough data for anomaly detection"
          /\ scaler' = scaler
          /\ model' = model
          /\ AnomalyColumnsKept]_vars

\* "Expense not found" has been returned for an id of the table that has
\* left the window, on a detector an earlier call had fitted
C5_Witness ==
    /\ ret.op = "check"
    /\ ret.message = "Expense not found"
    /\ ret.expense_id \in 1..Len(expenses)
    /\ model.fitted

-----------------------------------------------------------------------------
(* C6: when detect_anomalies has run on a window of at least 10 expenses,  *)
(* every expense of the window holds the (is_anomaly, anomaly_score) this  *)
(* run computed for it, every such score is >= 0, and the returned frame   *)
(* is exactly the rows of the window labelled anomalous.                   *)

C6_DetectWritesEveryRow ==
    (ret.op = "detect" /\ Cardinality(WindowIds(ret.user_id, 90)) >= 10)
    => /\ ret.raised = "none"
       /\ Len(ret.df) = Cardinality(WindowIds(ret.user_id, 90))
       /\ {ret.df[k].id : k \in 1..Len(ret.df)} = WindowIds(ret.user_id, 90)
       /\ \A k \in 1..Len(ret.df) :
              /\ expenses[ret.df[k].id].is_anomaly = ret.df[k].is_anomaly
              /\ expenses[ret.df[k].id].anomaly_score = ret.df[k].anomaly_score
              /\ expenses[ret.df[k].id].anomaly_score >= 0
       /\ {ret.flagged[k] : k \in 1..Len(ret.flagged)}
             = {ret.df[k] : k \in {j \in 1..Len(ret.df) : ret.df[j].is_anomaly}}
       /\ Len(ret.flagged) = Cardinality({ret.flagged[k].id : k \in 1..Len(ret.flagged)})
       /\ {ret.flagged[k].id : k \in 1..Len(ret.flagged)} \subseteq WindowIds(ret.user_id, 90)

\* a run over a window of the table (an older row lies outside it) that
\* flagged some rows and not others
C6_Witness ==
    /\ ret.op = "detect"
    /\ Cardinality(WindowIds(1, 90)) >= 10
    /\ Len(expenses) > Cardinality(WindowIds(1, 90))
    /\ ret.flagged # <<>>
    /\ Len(ret.flagged) < Len(ret.df)

-----------------------------------------------------------------------------
(* C7: when the caller's 90-day window holds fewer than 30 expenses, both  *)
(* forecast_expenses_prophet and forecast_by_category return success =     *)
(* False, and the forecasts table gets no row.                             *)

C7_ForecastNeedsThirty ==
    [][(ret'.op \in {"forecast", "by_category"}
          /\ Cardinality(WindowIds(ret.user_id, 90))' < 30)
       => /\ ret'.raised = "none"
          /\ ret'.success = FALSE
          /\ ret'.points = <<>>
          /\ forecasts' = forecasts]_vars

\* a forecast declined on 29 expenses
C7_Witness ==
    /\ ret.op = "forecast"
    /\ ret.success = FALSE
    /\ ret.raised = "none"
    /\ Cardinality(WindowIds(1, 90)) = 29

-----------------------------------------------------------------------------
(* C8: a successful forecast_expenses_prophet over a horizon of N =        *)
(* FORECAST_DAYS = 30 days returns exactly N points, one for each of the N *)
(* days that follow the last observed expense date, and total_predicted is *)
(* the sum of the points' amounts; the points are what was saved.          *)

RECURSIVE AmountsTotal(_)
AmountsTotal(points) ==
    IF points = <<>> THEN 0 ELSE Head(points).amount + AmountsTotal(Tail(points))

\* the latest day on which the user has an expense in the window
LastObservedDay(u) ==
    CHOOSE d \in {expenses[i].day : i \in WindowIds(u, 90)} :
        \A i \in WindowIds(u, 90) : expenses[i].day <= d

C8_ThirtyFuturePoints ==
    (ret.op = "forecast" /\ ret.success)
    => /\ Len(ret.points) = 30
       /\ \A k \in 1..Len(ret.points) :
              LET d == ret.points[k].date
              IN  ToOrdinal(d.year, d.month, d.day) = LastObservedDay(ret.user_id) + k
       /\ ret.total_predicted.n = ret.total_predicted.d * AmountsTotal(ret.points)
       /\ Len(forecasts) >= 30
       /\ \A k \in 1..30 :
              LET row == forecasts[Len(forecasts) - 30 + k]
              IN  /\ row.user_id = ret.user_id
                  /\ row.forecast_date = ret.points[k].date
                  /\ row.predicted_amount = ret.points[k].amount

\* a successful forecast whose last observed day is before today and whose
\* total is positive
C8_Witness ==
    /\ ret.op = "forecast"
    /\ ret.success
    /\ LastObservedDay(1) < now.day
    /\ ret.total_predicted.n > 0

-----------------------------------------------------------------------------
(* C9: every point of a forecast has 0 <= lower_bound <= amount <=         *)
(* upper_bound: clipping the three predictions at zero one by one keeps    *)
(* their order.                                                            *)

C9_BoundsOrdered ==
    (ret.op = "forecast" /\ ret.success)
    => \A k \in 1..Len(ret.points) :
          /\ 0 <= ret.points[k].lower_bound
          /\ ret.points[k].lower_bound <= ret.points[k].amount
          /\ ret.points[k].amount <= ret.points[k].upper_bound

\* a forecast in which one point had all three predictions below zero,
\* another only the lower one, and a third none
C9_Witness ==
    /\ ret.op = "forecast"
    /\ ret.success
    /\ \E k \in 1..Len(ret.points) : ret.points[k].upper_bound = 0
    /\ \E k \in 1..Len(ret.points) :
           ret.points[k].lower_bound = 0 /\ ret.points[k].amount > 0
    /\ \E k \in 1..Len(ret.points) : ret.points[k].lower_bound > 0

-----------------------------------------------------------------------------
(* C10: with an income on file detect_budget_overrun returns               *)
(* projected_total = spend + (spend / max(1, day)) * days_remaining with   *)
(* days_remaining = length of the month - day >= 0, budget_limit = half    *)
(* the income, will_exceed = (projected_total > budget_limit) and          *)
(* excess_amount = max(0, projected_total - budget_limit).  Income 60000   *)
(* and spend 20000 on day 10 of a 30-day month: projected 60000, limit     *)
(* 30000, will_exceed, excess 30000.  Fractions are compared by cross      *)
(* multiplication.                                                         *)

C10_WitnessWithin ==
    /\ ret.op = "budget"
    /\ ret.projection # <<>>
    /\ ~ret.projection[1].will_exceed
    /\ ret.projection[1].days_remaining = 0

-----------------------------------------------------------------------------
(* C11: the current_spending detect_budget_overrun returns is the sum of   *)
(* the user's expenses dated in the current calendar month, from its day 1 *)
(* to today, and holds no expense dated in the previous month, whatever    *)
(* the day of the month.                                                   *)

\* the user's expenses dated from day 1 of the current month to today
InCurrentMonth(r) ==
    /\ ToDate(r.day).year = ToDate(now.day).year
    /\ ToDate(r.day).month = ToDate(now.day).month
    /\ r.day <= now.day

MonthToDate(u) ==
    SelectSeq(expenses, LAMBDA r : r.user_id = u /\ InCurrentMonth(r))

C11_CalendarMonthSpend ==
    (ret.op = "budget" /\ ret.projection # <<>>)
    => ret.projection[1].current_spending
           = SumAmount(MonthToDate(ret.user_id), Len(MonthToDate(ret.user_id)))

-----------------------------------------------------------------------------
(* C12: on the category history [100, 100, 100, 100] (mean 100, sigma 0)   *)
(* an amount of 100.01 does not get the "higher than average" message and  *)
(* an amount of 500 does; with fewer than 3 precedents of the category the *)
(* generic "unusual pattern" message is returned.                          *)

\* the precedents of the explained expense's category
Precedents == SelectSeq(expenses, LAMBDA r : r.category = ret.df[1].category)

FlatHundred ==
    /\ Len(Precedents) = 4
    /\ \A i \in 1..4 : Precedents[i].amount = 10000

C12_ZeroVarianceExplain ==
    ret.op = "explain"
    => /\ (FlatHundred /\ ret.df[1].amount = 10001) => ret.message # "higher than average"
       /\ (FlatHundred /\ ret.df[1].amount = 50000) => ret.message = "higher than average"
       /\ Len(Precedents) < 3 => ret.message = "unusual pattern"

-----------------------------------------------------------------------------
(* C13: detect_anomalies over an unchanged set of expenses gives the same  *)
(* labels and scores again: they are those a fresh detector gives on the   *)
(* same expenses with blank anomaly columns, whatever scaler and forest    *)
(* earlier detect_anomalies or check_new_expense calls left on the         *)
(* instance and whatever is_anomaly and anomaly_score they stored, and a   *)
(* call that follows another one returns the labels of the first.          *)

\* the expenses with the anomaly columns as add_expense leaves them
Scrubbed(tbl) ==
    [i \in 1..Len(tbl) |-> [tbl[i] EXCEPT !.is_anomaly = FALSE, !.anomaly_score = 0]]

C13_DetectDeterministic ==
    [][(ret'.op = "detect" /\ ret'.stage = "scored")
       => /\ ret'.df = detect_anomalies(Scrubbed(expenses), now, Unfitted, NoForest,
                                        ret'.user_id).ret.df
          /\ (ret.op = "detect" /\ ret.stage = "scored" /\ ret.user_id = ret'.user_id)
                => ret'.df = ret.df]_vars

\* a scoring run on a detector that has checked an added expense, over a
\* store in which an expense outside the window holds a score of an
\* earlier run
C13_Witness ==
    /\ ret.op = "detect"
    /\ ret.stage = "scored"
    /\ adds > 0
    /\ \E flagged \in 1..Len(ret.df) : ret.df[flagged].is_anomaly
    /\ \E i \in 1..Len(expenses) :
           /\ expenses[i].id \notin WindowIds(ret.user_id, LookbackDays)
           /\ expenses[i].anomaly_score # 0

-----------------------------------------------------------------------------
(* C14: the write-back of detect_anomalies is committed one expense at a   *)
(* time: when the call is given up after k of its n row updates, exactly   *)
(* the k expenses updated so far hold the newly computed is_anomaly and    *)
(* anomaly_score, and every other expense keeps the values it had stored.  *)

\* the row of the table with the given id
StoredAs(tbl, id) == tbl[CHOOSE i \in 1..Len(tbl) : tbl[i].id = id]

C14_PartialWriteBack ==
    [][(ret'.op = "detect" /\ ret'.stage = "abandoned")
       => LET lab == ret'.df
              k   == ret'.n_written
          IN  /\ k < Len(lab)
              /\ lab = detect_anomalies(expenses, now, scaler, model, ret'.user_id).ret.df
              /\ Len(expenses') = Len(expenses)
              /\ \A j \in 1..k :
                     /\ StoredAs(expenses', lab[j].id).is_anomaly = lab[j].is_anomaly
                     /\ StoredAs(expenses', lab[j].id).anomaly_score = lab[j].anomaly_score
              /\ \A i \in 1..Len(expenses) :
                     (\A j \in 1..k : lab[j].id # expenses[i].id)
                     => expenses'[i] = expenses[i]]_vars

\* a run given up part way: an expense it reached holds its new score, and
\* one it did not reach holds the different score of the earlier run
C14_Witness ==
    /\ ret.op = "detect"
    /\ ret.stage = "abandoned"
    /\ ret.n_written > 0
    /\ \E j \in (ret.n_written + 1) .. Len(ret.df) :
           /\ StoredAs(expenses, ret.df[j].id).anomaly_score # 0
           /\ StoredAs(expenses, ret.df[j].id).anomaly_score # ret.df[j].anomaly_score
    /\ \E j \in 1 .. ret.n_written :
           /\ ret.df[j].anomaly_score # 0
           /\ StoredAs(expenses, ret.df[j].id).anomaly_score = ret.df[j].anomaly_score

====
